---------------------------- MODULE Spec2Model ----------------------------
(***************************************************************************)
(* League management system: the season statistics engine.                 *)
(*                                                                         *)
(* The model covers the stored data the engine reads (season and league    *)
(* points configuration, matches, match events), the Match operations      *)
(* that write it, and the report algorithms of apps/leagues/algorithms.    *)
(*                                                                         *)
(* Reading of the source.  The Python source misspells a number of         *)
(* identifiers (home_standig / home_standing, goal_for / goals_for,        *)
(* .from / .form, .draw / .draws, __post__init__ / __post_init__,          *)
(* self.league / self.season.league, Match.object / Match.objects, ...).   *)
(* A misspelled identifier is read as the identifier it misspells; so is   *)
(* a slip of the same kind that can only raise (.count for .count(), a     *)
(* keyword such as goals_against that the record type does not declare).   *)
(* A statement that names a valid but different object (the home standing  *)
(* where the away standing would be expected, a missing statement) is      *)
(* modelled exactly as written.                                            *)
(***************************************************************************)
EXTENDS Integers, Sequences, FiniteSets, TLC

(***************************************************************************)
(* Bounds of the model.                                                    *)
(***************************************************************************)
NumTeams == 3
MaxMatches == 2
MaxScore == 2
NumPlayers == 4
MaxEvents == 2
MaxPoints == 3

(***************************************************************************)
(* Program constants.                                                      *)
(***************************************************************************)
\* A nullable IntegerField that is not set (None).
Null == -1
\* League.points_per_win / points_per_draw / points_per_loss defaults.
DefaultPointsPerWin == 3
DefaultPointsPerDraw == 1
DefaultPointsPerLoss == 0
\* form[-5:]
FormLength == 5

Teams == 1..NumTeams
Players == 1..NumPlayers
Scores == 0..MaxScore

\* Team.name, unique within a league; names are compared as Python compares
\* strings, here by their rank in alphabetical order.  The order of names is
\* not the order of ids.
TeamName(t) == NumTeams + 1 - t

\* Player.team and Player.is_goalkeeper of the league's roster.
PlayerTeam(p) == ((p - 1) % NumTeams) + 1
IsGoalkeeper(p) == p <= NumTeams

MATCH_STATUS_CHOICES ==
    {"scheduled", "live", "halftime", "completed", "postponed", "cancelled", "disputed"}

TIE_BREAKER_CHOICES == {"goal_difference", "goals_for", "head_to_head", "away_goals"}

\* The event types the reports read.
EVENT_TYPE_CHOICES ==
    {"goal", "penalty_goal", "own_goal", "yellow_card", "red_card", "second_yellow", "assist"}

VARIABLES
    season,         \* Season: points overrides and tie-breaker fields
    league,         \* League: default points
    matches,        \* Match rows of the season, in Meta.ordering (match_date)
    events,         \* MatchEvent rows of the season
    pc,             \* position of the running report call that is taken in steps
    teams_qs,       \* the order in which league.teams.all() returned the teams
    snapshot,       \* the rows of the completed-matches queryset
    idx,            \* next row of snapshot to process
    standings_map,  \* dict team id -> TeamStanding
    standings,      \* the list calculate_standings returns
    report          \* the open call of another report, and what it returns

vars == <<season, league, matches, events, pc, teams_qs, snapshot, idx,
          standings_map, standings, report>>

calcVars == <<pc, teams_qs, snapshot, idx, standings_map, standings, report>>

(***************************************************************************)
(* Season: effective points and tie-breaker rules.                         *)
(***************************************************************************)
\* apps/leagues/models/season.py, the Season class the package exports.
actual_points_per_win(s, l) ==
    IF s.points_per_win # Null THEN s.points_per_win ELSE l.points_per_win

actual_points_per_draw(s, l) ==
    IF s.points_per_draw # Null THEN s.points_per_draw ELSE l.points_per_draw

actual_points_per_loss(s, l) ==
    IF s.points_per_loss # Null THEN s.points_per_loss ELSE l.points_per_loss

\* Python's `a or b` on an optional integer: None and 0 are both falsy.
PyOr(a, b) == IF a = Null \/ a = 0 THEN b ELSE a

\* apps/leagues/models/league.py, the second Season class of the app.
league_py_actual_points_per_win(s, l) == PyOr(s.points_per_win, l.points_per_win)

league_py_actual_points_per_draw(s, l) == PyOr(s.points_per_draw, l.points_per_draw)

get_tie_breaker_rules(s) ==
    IF s.secondary_tie_breaker # "" /\ s.secondary_tie_breaker # s.primary_tie_breaker
    THEN <<s.primary_tie_breaker, s.secondary_tie_breaker>>
    ELSE <<s.primary_tie_breaker>>

(***************************************************************************)
(* Match: the row, save() and the status operations.                       *)
(***************************************************************************)
NewMatch(h, a) ==
    [home_team |-> h, away_team |-> a, home_score |-> 0, away_score |-> 0,
     status |-> "scheduled", home_clean_sheet |-> FALSE, away_clean_sheet |-> FALSE]

\* Mutant: save leaves the clean-sheet flags as they are.
MatchSaveKeepsFlags(m) == m

\* Mutant: only the home flag follows the scores.
MatchSaveHomeFlagOnly(m) ==
    IF m.status = "completed"
    THEN [m EXCEPT !.home_clean_sheet = (m.away_score = 0)]
    ELSE m

\* Match.save: the clean-sheet flags follow the scores of a completed match.
MatchSave(m) ==
    IF m.status = "completed"
    THEN [m EXCEPT !.home_clean_sheet = (m.away_score = 0),
                   !.away_clean_sheet = (m.home_score = 0)]
    ELSE m


\* No call of a report other than the standings is open.
NoReport == [op |-> "none", arg |-> 0, raised |-> FALSE, rows |-> <<>>]

\* No report call is in progress.  The operations below run one after the
\* other: a write comes before or after a report call.  A write that lands
\* while a report runs is the subject of StartCleanSheets and the
\* operations after it.
Idle == pc = "idle" /\ report = NoReport

\* A Match row is created (scheduled, 0-0); Match.clean: a team cannot play
\* against itself.  Rows are kept in Meta.ordering, by match_date.
CreateMatch(h, a) ==
    /\ Idle
    /\ Len(matches) < MaxMatches
    /\ h # a
    /\ matches' = Append(matches, MatchSave(NewMatch(h, a)))
    /\ UNCHANGED <<season, league, events, calcVars>>

start_match(i) ==
    /\ Idle
    /\ matches' = [matches EXCEPT ![i] = MatchSave([@ EXCEPT !.status = "live"])]
    /\ UNCHANGED <<season, league, events, calcVars>>

complete_match(i, home_score, away_score) ==
    /\ Idle
    /\ matches' = [matches EXCEPT ![i] =
                      MatchSave([@ EXCEPT !.home_score = home_score,
                                          !.away_score = away_score,
                                          !.status = "completed"])]
    /\ UNCHANGED <<season, league, events, calcVars>>

dispute_match(i) ==
    /\ Idle
    /\ matches' = [matches EXCEPT ![i] = MatchSave([@ EXCEPT !.status = "disputed"])]
    /\ UNCHANGED <<season, league, events, calcVars>>

(***************************************************************************)
(* Standings: apps/leagues/algorithms/standings.py                         *)
(***************************************************************************)
\* TeamStanding(team_id=team.id, team_name=team.name), every counter 0 and an
\* empty form (the hook that replaces form = None by [] is spelled
\* __post__init__ in the source and is read as __post_init__).
NewTeamStanding(t) ==
    [team_id |-> t, team_name |-> TeamName(t), matches_played |-> 0, wins |-> 0,
     draws |-> 0, losses |-> 0, goals_for |-> 0, goals_against |-> 0,
     goal_difference |-> 0, points |-> 0, form |-> <<>>]

\* Match.objects.filter(season=..., status='completed'), in Meta.ordering.
IsCompleted(m) == m.status = "completed"

\* Mutant: the status filter is left out.
AllMatches(ms) == ms

CompletedMatches(ms) == SelectSeq(ms, IsCompleted)

\* form[-5:]
LastFive(f) ==
    IF Len(f) <= FormLength THEN f ELSE SubSeq(f, Len(f) - FormLength + 1, Len(f))

\* Mutant: the goals of the match replace the goals so far.
AddPlayedOverwriting(st, own, other) ==
    [st EXCEPT !.matches_played = @ + 1,
               !.goals_for = own,
               !.goals_against = other]

\* matches_played += 1; goals_for += own score; goals_against += other score
AddPlayed(st, own, other) ==
    [st EXCEPT !.matches_played = @ + 1,
               !.goals_for = @ + own,
               !.goals_against = @ + other]

\* _process_match_result, the home standing after the match.
HomeAfter(st, m, s, l) ==
    LET p == AddPlayed(st, m.home_score, m.away_score) IN
    IF m.home_score > m.away_score
    THEN [p EXCEPT !.wins = @ + 1,
                   !.points = @ + actual_points_per_win(s, l),
                   !.form = LastFive(Append(Append(@, "W"), "L"))]
    ELSE IF m.home_score < m.away_score
    THEN [p EXCEPT !.losses = @ + 1,
                   !.form = LastFive(Append(@, "L"))]
    ELSE [p EXCEPT !.draws = @ + 1,
                   !.points = @ + actual_points_per_draw(s, l)
                                + actual_points_per_draw(s, l),
                   !.form = LastFive(Append(@, "D"))]

\* Mutant: a home win is no loss of the away team.
AwayAfterWithoutLoss(st, m, s, l) ==
    LET p == AddPlayed(st, m.away_score, m.home_score) IN
    IF m.home_score > m.away_score
    THEN [p EXCEPT !.form = LastFive(@)]
    ELSE IF m.home_score < m.away_score
    THEN [p EXCEPT !.wins = @ + 1,
                   !.points = @ + actual_points_per_win(s, l),
                   !.form = LastFive(Append(@, "W"))]
    ELSE [p EXCEPT !.draws = @ + 1,
                   !.form = LastFive(Append(@, "D"))]

\* _process_match_result, the away standing after the match.
AwayAfter(st, m, s, l) ==
    LET p == AddPlayed(st, m.away_score, m.home_score) IN
    IF m.home_score > m.away_score
    THEN [p EXCEPT !.losses = @ + 1,
                   !.form = LastFive(@)]
    ELSE IF m.home_score < m.away_score
    THEN [p EXCEPT !.wins = @ + 1,
                   !.points = @ + actual_points_per_win(s, l),
                   !.form = LastFive(Append(@, "W"))]
    ELSE [p EXCEPT !.draws = @ + 1,
                   !.form = LastFive(Append(@, "D"))]

_process_match_result(m, smap, s, l) ==
    [smap EXCEPT ![m.home_team] = HomeAfter(@, m, s, l),
                 ![m.away_team] = AwayAfter(@, m, s, l)]

\* Mutant: the operands of the difference are exchanged.
WithGoalDifferenceSwapped(st) ==
    [st EXCEPT !.goal_difference = st.goals_against - st.goals_for]

\* standing.goal_difference = standing.goals_for - standing.goals_against
WithGoalDifference(st) ==
    [st EXCEPT !.goal_difference = st.goals_for - st.goals_against]

\* Mutant: the team name is left out of the key.
SortKeyNoName(x) == <<0 - x.points, 0 - x.goal_difference, 0 - x.goals_for>>

\* Mutant: points are not negated, so they sort ascending.
SortKeyPointsAscending(x) == <<x.points, 0 - x.goal_difference, 0 - x.goals_for, x.team_name>>

\* The sort key: (-points, -goal_difference, -goals_for, team_name).
SortKey(x) == <<0 - x.points, 0 - x.goal_difference, 0 - x.goals_for, x.team_name>>

\* Python's comparison of two tuples of integers of the same length.
RECURSIVE TupleLess(_, _, _)
TupleLess(a, b, i) ==
    IF i > Len(a) THEN FALSE
    ELSE IF a[i] < b[i] THEN TRUE
    ELSE IF a[i] > b[i] THEN FALSE
    ELSE TupleLess(a, b, i + 1)

KeyLess(x, y) == TupleLess(SortKey(x), SortKey(y), 1)

\* list.sort(key=...) is stable: an element goes after every element already
\* placed whose key is not greater than its own.
RECURSIVE InsertSorted(_, _, _)
InsertSorted(x, sorted, i) ==
    IF i > Len(sorted) THEN Append(sorted, x)
    ELSE IF KeyLess(x, sorted[i])
    THEN SubSeq(sorted, 1, i - 1) \o <<x>> \o SubSeq(sorted, i, Len(sorted))
    ELSE InsertSorted(x, sorted, i + 1)

RECURSIVE SortStandings(_, _, _)
SortStandings(list, k, acc) ==
    IF k > Len(list) THEN acc
    ELSE SortStandings(list, k + 1, InsertSorted(list[k], acc, 1))

\* The orders in which a queryset without ordering can return the teams.
TeamOrders == {o \in [1..NumTeams -> Teams] : \A t \in Teams : \E i \in 1..NumTeams : o[i] = t}

\* calculate_standings up to the loop over the matches: one zero-valued
\* TeamStanding per team of the league, and the completed matches fetched.
StartStandings(order) ==
    /\ Idle
    /\ pc' = "fold"
    /\ teams_qs' = order
    /\ standings_map' = [t \in Teams |-> NewTeamStanding(t)]
    /\ snapshot' = CompletedMatches(matches)
    /\ idx' = 1
    /\ UNCHANGED <<season, league, matches, events, standings, report>>

\* One iteration of `for match in matches`.
ProcessMatch ==
    /\ pc = "fold"
    /\ idx <= Len(snapshot)
    /\ standings_map' = _process_match_result(snapshot[idx], standings_map, season, league)
    /\ idx' = idx + 1
    /\ UNCHANGED <<season, league, matches, events, pc, teams_qs, snapshot, standings, report>>

\* After the loop: goal differences, then the sort of list(standings_map.values()).
FinishStandings ==
    /\ pc = "fold"
    /\ idx > Len(snapshot)
    /\ standings_map' = [t \in Teams |-> WithGoalDifference(standings_map[t])]
    /\ standings' = SortStandings([i \in 1..NumTeams |-> standings_map'[teams_qs[i]]], 1, <<>>)
    /\ pc' = "done"
    /\ UNCHANGED <<season, league, matches, events, teams_qs, snapshot, idx, report>>

\* return standings: the call is over and its locals are gone.
ReturnStandings ==
    /\ pc = "done"
    /\ pc' = "idle"
    /\ teams_qs' = <<>>
    /\ snapshot' = <<>>
    /\ idx' = 0
    /\ standings_map' = <<>>
    /\ standings' = <<>>
    /\ UNCHANGED <<season, league, matches, events, report>>

\* calculate_standings as one call on the stored matches: the same fold,
\* start to end, without the sort.
RECURSIVE FoldMatches(_, _, _, _, _)
FoldMatches(ms, k, smap, s, l) ==
    IF k > Len(ms) THEN smap
    ELSE FoldMatches(ms, k + 1, _process_match_result(ms[k], smap, s, l), s, l)

StandingsRows(ms, s, l) ==
    LET folded == FoldMatches(CompletedMatches(ms), 1, [t \in Teams |-> NewTeamStanding(t)], s, l)
    IN [t \in Teams |-> WithGoalDifference(folded[t])]

(***************************************************************************)
(* Clean sheets: apps/leagues/algorithms/clean_sheet.py                    *)
(***************************************************************************)
\* Match.objects.filter(season=..., home_team=team, status='completed')
HomeMatches(ms, t) ==
    LET AtHome(m) == m.home_team = t IN SelectSeq(CompletedMatches(ms), AtHome)

\* Match.objects.filter(season=..., away_team=team, status='completed')
AwayMatches(ms, t) ==
    LET Away(m) == m.away_team = t IN SelectSeq(CompletedMatches(ms), Away)

HomeFlagged(m) == m.home_clean_sheet

AwayFlagged(m) == m.away_clean_sheet

\* Mutant: the tenths are cut off, not rounded.
FlooredPercentage(num, den) == (1000 * num) \div den

\* round(num / den * 100, 1), in tenths of a percent: the nearest tenth, a
\* tie going to the even one.
RoundedPercentage(num, den) ==
    LET q == (1000 * num) \div den
        r == (1000 * num) % den
    IN IF 2 * r > den THEN q + 1
       ELSE IF 2 * r < den THEN q
       ELSE IF q % 2 = 0 THEN q ELSE q + 1

\* One CleanSheetStats of calculate_clean_sheets.
CleanSheetRow(ms, t) ==
    LET home_clean_sheets == Len(SelectSeq(HomeMatches(ms, t), HomeFlagged))
        away_clean_sheets == Len(SelectSeq(AwayMatches(ms, t), AwayFlagged))
        total_clean_sheets == home_clean_sheets + away_clean_sheets
        total_matches == Len(HomeMatches(ms, t)) + Len(AwayMatches(ms, t))
    IN [team_id |-> t, team_name |-> TeamName(t),
        clean_sheets |-> total_clean_sheets,
        matches_played |-> total_matches,
        clean_sheet_percentage |->
            IF total_matches > 0 THEN RoundedPercentage(total_clean_sheets, total_matches) ELSE 0]

\* Match.objects.filter(season=..., status='completed')
\*      .filter(Q(home_team=gk.team) | Q(away_team=gk.team))
TeamMatches(ms, t) ==
    LET Involved(m) == m.home_team = t \/ m.away_team = t
    IN SelectSeq(CompletedMatches(ms), Involved)

\* Mutant: the away branch of the clean-sheet test is missing.
GoalkeeperRowHomeOnly(ms, gk) ==
    LET t == PlayerTeam(gk)
        team_matches == TeamMatches(ms, t)
        Clean(m) == m.home_team = t /\ m.away_score = 0
        Conceded(m) == IF m.home_team = t THEN m.away_score ELSE m.home_score
        RECURSIVE Against(_)
        Against(k) == IF k > Len(team_matches) THEN 0
                      ELSE Conceded(team_matches[k]) + Against(k + 1)
    IN [player_id |-> gk, team_name |-> TeamName(t),
        clean_sheets |-> Len(SelectSeq(team_matches, Clean)),
        matches_played |-> Len(team_matches),
        goals_against |-> Against(1)]

\* One GoalKeeperCleanSheetStats of calculate_goalkeeper_clean_sheets.
GoalkeeperRow(ms, gk) ==
    LET t == PlayerTeam(gk)
        team_matches == TeamMatches(ms, t)
        Clean(m) == \/ (m.home_team = t /\ m.away_score = 0)
                    \/ (m.home_team # t /\ m.away_team = t /\ m.home_score = 0)
        Conceded(m) == IF m.home_team = t THEN m.away_score ELSE m.home_score
        RECURSIVE Against(_)
        Against(k) == IF k > Len(team_matches) THEN 0
                      ELSE Conceded(team_matches[k]) + Against(k + 1)
    IN [player_id |-> gk, team_name |-> TeamName(t),
        clean_sheets |-> Len(SelectSeq(team_matches, Clean)),
        matches_played |-> Len(team_matches),
        goals_against |-> Against(1)]

Goalkeepers == {p \in Players : IsGoalkeeper(p)}

(***************************************************************************)
(* Disciplinary: apps/leagues/algorithms/discplinary.py                    *)
(***************************************************************************)
\* The first count assigned to away_matches is overwritten by the second.
_get_team_matches_count(ms, t) ==
    LET home_matches == Len(HomeMatches(ms, t))
        away_matches == Len(AwayMatches(ms, t))
    IN home_matches + away_matches

\* Every output that is computed from match results.
C4_MatchReports ==
    <<StandingsRows(matches, season, league),
      [t \in Teams |-> CleanSheetRow(matches, t)],
      [p \in Goalkeepers |-> GoalkeeperRow(matches, p)],
      [t \in Teams |-> _get_team_matches_count(matches, t)]>>

(***************************************************************************)
(* Match events: apps/matches/models/event.py, and the event-based         *)
(* reports of top_scorers.py and discplinary.py.                           *)
(***************************************************************************)
\* MatchEvent.save: an own_goal event is flagged is_own_goal.  The team of
\* the row is the one it was created with: `team` is a required column, and
\* save() runs no validation.
MatchEventSave(e) ==
    IF e.event_type = "own_goal" THEN [e EXCEPT !.is_own_goal = TRUE] ELSE e

\* A MatchEvent as it is constructed: related_player is Null when the event
\* names no second player.
NewEvent(i, event_type, player, related_player, team, is_own_goal) ==
    [match |-> i, event_type |-> event_type, player |-> player,
     related_player |-> related_player, team |-> team, is_own_goal |-> is_own_goal]

\* MatchEvent.clean: whether the validation passes.  The player must be from
\* the event team, a related player from the same team, and an assist or a
\* substitution needs its related player.  The minute columns are no part of
\* the rows here.
MatchEventClean(e) ==
    /\ PlayerTeam(e.player) = e.team
    /\ e.related_player # Null => PlayerTeam(e.related_player) = e.team
    /\ e.event_type \in {"assist", "substitution_in", "substitution_out"}
          => e.related_player # Null

\* A MatchEvent row is created for match i; no status of the match is
\* required, and clean() is not run.
RecordEvent(i, event_type, player, related_player, team, is_own_goal) ==
    /\ Idle
    /\ Len(events) < MaxEvents
    /\ events' = Append(events, MatchEventSave(NewEvent(i, event_type, player,
                                                        related_player, team, is_own_goal)))
    /\ UNCHANGED <<season, league, matches, calcVars>>

\* Mutant: own goals are not excluded.
total_goals_with_own_goals(evs, p) ==
    LET Goal(e) == e.event_type \in {"goal", "penalty_goal"} /\ e.player = p
    IN Len(SelectSeq(evs, Goal))

\* get_top_scorers: MatchEvent.objects.filter(match__season=...,
\* event_type__in=['goal', 'penalty_goal']).exclude(is_own_goal=True),
\* Count('id') per player.  Every row of events belongs to the season.
total_goals(evs, p) ==
    LET Goal(e) == /\ e.event_type \in {"goal", "penalty_goal"}
                   /\ ~e.is_own_goal
                   /\ e.player = p
    IN Len(SelectSeq(evs, Goal))

\* get_top_assists: filter(match__season=..., event_type='assist'), per player.
total_assists(evs, p) ==
    LET Assist(e) == e.event_type = "assist" /\ e.player = p
    IN Len(SelectSeq(evs, Assist))

\* calculate_disciplinary_stats: the card events of the season, per player.
player_yellow_cards(evs, p) ==
    LET Yellow(e) == e.event_type = "yellow_card" /\ e.player = p
    IN Len(SelectSeq(evs, Yellow))

\* Mutant: a second_yellow event is not counted as a red card.
player_red_cards_direct_only(evs, p) ==
    LET Red(e) == e.event_type = "red_card" /\ e.player = p
    IN Len(SelectSeq(evs, Red))

player_red_cards(evs, p) ==
    LET Red(e) == e.event_type \in {"red_card", "second_yellow"} /\ e.player = p
    IN Len(SelectSeq(evs, Red))

\* calculate_team_disciplinary_stats: filter(match__season=..., player__team=team, ...)
team_yellow_cards(evs, t) ==
    LET Yellow(e) == e.event_type = "yellow_card" /\ PlayerTeam(e.player) = t
    IN Len(SelectSeq(evs, Yellow))

team_red_cards(evs, t) ==
    LET Red(e) == e.event_type \in {"red_card", "second_yellow"} /\ PlayerTeam(e.player) = t
    IN Len(SelectSeq(evs, Red))

(***************************************************************************)
(* Ordering of report rows.  A Python list.sort(key=...) is stable, and an  *)
(* SQL ORDER BY leaves rows of equal key in the order the database         *)
(* produced them; both are the stable sort of the rows as they were read.  *)
(***************************************************************************)
\* The position of row k among the rows already placed: after every row
\* whose key is not greater than its own.
RECURSIVE InsertIndex(_, _, _, _)
InsertIndex(keys, k, acc, i) ==
    IF i > Len(acc) THEN Append(acc, k)
    ELSE IF TupleLess(keys[k], keys[acc[i]], 1)
    THEN SubSeq(acc, 1, i - 1) \o <<k>> \o SubSeq(acc, i, Len(acc))
    ELSE InsertIndex(keys, k, acc, i + 1)

\* The indices of keys in sorted order.
RECURSIVE StableOrder(_, _, _)
StableOrder(keys, k, acc) ==
    IF k > Len(keys) THEN acc
    ELSE StableOrder(keys, k + 1, InsertIndex(keys, k, acc, 1))

\* rows sorted by keys, keys[i] being the key of rows[i].
SortedBy(rows, keys) ==
    LET o == StableOrder(keys, 1, <<>>) IN [i \in 1..Len(rows) |-> rows[o[i]]]

\* The caller has the list a report returned; the call is over.
ReturnReport ==
    /\ pc = "idle"
    /\ report # NoReport
    /\ report' = NoReport
    /\ UNCHANGED <<season, league, matches, events, pc, teams_qs, snapshot, idx,
                   standings_map, standings>>

(***************************************************************************)
(* Leaderboards: apps/leagues/algorithms/top_scorers.py                    *)
(***************************************************************************)
\* Player.first_name and last_name, as the rank of the full name in
\* alphabetical order; the order of names is not the order of ids.
PlayerName(p) == NumPlayers + 1 - p

\* The orders in which the database can produce the groups of a GROUP BY.
PlayerOrders ==
    {o \in [1..NumPlayers -> Players] : \A p \in Players : \E i \in 1..NumPlayers : o[i] = p}

\* PlayerStats(player_id, player_name, team_name, goals=..., assists=...)
PlayerStats(p, goals, assists) ==
    [player_id |-> p, player_name |-> PlayerName(p), team_name |-> TeamName(PlayerTeam(p)),
     goals |-> goals, assists |-> assists, matches_played |-> 0]

\* goal_events.values('player_id', ...).annotate(total_goals=Count('id')):
\* one group per player that has a goal event, in the database's order.
goals_by_player(evs, order) ==
    LET Scored(p) == total_goals(evs, p) > 0
        groups == SelectSeq(order, Scored)
    IN [i \in 1..Len(groups) |-> PlayerStats(groups[i], total_goals(evs, groups[i]), 0)]

\* assist_events.values('player_id', ...).annotate(total_assists=Count('id'))
assists_by_player(evs, order) ==
    LET Assisted(p) == total_assists(evs, p) > 0
        groups == SelectSeq(order, Assisted)
    IN [i \in 1..Len(groups) |-> PlayerStats(groups[i], 0, total_assists(evs, groups[i]))]

\* Mutant: the slice keeps one row too many.
TruncatedOneMore(rows, limit) ==
    IF Len(rows) <= limit THEN rows ELSE SubSeq(rows, 1, limit + 1)

\* queryset[:limit] for limit >= 0; [:0] is the empty queryset.
Truncated(rows, limit) ==
    IF Len(rows) <= limit THEN rows ELSE SubSeq(rows, 1, limit)

\* get_top_scorers(limit): .order_by('-total_goals')[:limit].  The queryset
\* refuses a negative bound of a slice by raising; the method has no check of
\* its own on limit.
get_top_scorers(limit, order) ==
    /\ Idle
    /\ LET rows == goals_by_player(events, order)
           keys == [i \in 1..Len(rows) |-> <<0 - rows[i].goals>>]
       IN report' = IF limit < 0
                    THEN [op |-> "get_top_scorers", arg |-> limit, raised |-> TRUE,
                          rows |-> <<>>]
                    ELSE [op |-> "get_top_scorers", arg |-> limit, raised |-> FALSE,
                          rows |-> Truncated(SortedBy(rows, keys), limit)]
    /\ UNCHANGED <<season, league, matches, events, pc, teams_qs, snapshot, idx,
                   standings_map, standings>>

\* get_top_assists(limit): .order_by('-total_assists')[:limit]
get_top_assists(limit, order) ==
    /\ Idle
    /\ LET rows == assists_by_player(events, order)
           keys == [i \in 1..Len(rows) |-> <<0 - rows[i].assists>>]
       IN report' = IF limit < 0
                    THEN [op |-> "get_top_assists", arg |-> limit, raised |-> TRUE,
                          rows |-> <<>>]
                    ELSE [op |-> "get_top_assists", arg |-> limit, raised |-> FALSE,
                          rows |-> Truncated(SortedBy(rows, keys), limit)]
    /\ UNCHANGED <<season, league, matches, events, pc, teams_qs, snapshot, idx,
                   standings_map, standings>>

(***************************************************************************)
(* The clean-sheet reports and the flag update of clean_sheet.py as        *)
(* operations.                                                             *)
(***************************************************************************)
\* calculate_clean_sheets: one row per team, in the order the teams were
\* read, then sort(key=(-clean_sheets, -clean_sheet_percentage)).
calculate_clean_sheets(order) ==
    /\ Idle
    /\ LET rows == [i \in 1..NumTeams |-> CleanSheetRow(matches, order[i])]
           keys == [i \in 1..NumTeams |->
                       <<0 - rows[i].clean_sheets, 0 - rows[i].clean_sheet_percentage>>]
       IN report' = [op |-> "calculate_clean_sheets", arg |-> 0, raised |-> FALSE,
                     rows |-> SortedBy(rows, keys)]
    /\ UNCHANGED <<season, league, matches, events, pc, teams_qs, snapshot, idx,
                   standings_map, standings>>

\* The orders in which the goalkeepers of the league can be read.
GoalkeeperOrders ==
    {o \in [1..Cardinality(Goalkeepers) -> Goalkeepers] :
        \A p \in Goalkeepers : \E i \in 1..Cardinality(Goalkeepers) : o[i] = p}

\* calculate_goalkeeper_clean_sheets: one row per goalkeeper, then
\* sort(key=(-clean_sheets, goals_against)).
calculate_goalkeeper_clean_sheets(order) ==
    /\ Idle
    /\ LET rows == [i \in 1..Len(order) |-> GoalkeeperRow(matches, order[i])]
           keys == [i \in 1..Len(order) |->
                       <<0 - rows[i].clean_sheets, rows[i].goals_against>>]
       IN report' = [op |-> "calculate_goalkeeper_clean_sheets", arg |-> 0,
                     raised |-> FALSE, rows |-> SortedBy(rows, keys)]
    /\ UNCHANGED <<season, league, matches, events, pc, teams_qs, snapshot, idx,
                   standings_map, standings>>

\* Mutant: each flag is taken from the team's own score.
update_match_clean_sheet_own_score(i) ==
    /\ Idle
    /\ LET m == matches[i] IN
       matches' = [matches EXCEPT ![i] =
                      MatchSave([m EXCEPT !.home_clean_sheet = (m.home_score = 0),
                                          !.away_clean_sheet = (m.away_score = 0)])]
    /\ UNCHANGED <<season, league, events, calcVars>>

\* update_match_clean_sheet(match): both flags are set from the scores, then
\* match.save(update_fields=['home_clean_sheet', 'away_clean_sheet']) runs
\* Match.save and writes the two flag columns of the row.
update_match_clean_sheet(i) ==
    /\ Idle
    /\ LET m == matches[i] IN
       matches' = [matches EXCEPT ![i] =
                      MatchSave([m EXCEPT !.home_clean_sheet = (m.away_score = 0),
                                          !.away_clean_sheet = (m.home_score = 0)])]
    /\ UNCHANGED <<season, league, events, calcVars>>

(***************************************************************************)
(* The disciplinary reports of discplinary.py as operations.  Ratings are  *)
(* in tenths: 100 is the rating 10.0.                                      *)
(***************************************************************************)
\* round(x, 1) of x = num / den tenths, den > 0: the nearest tenth, a tie
\* going to the even one.
RoundedTenths(num, den) ==
    LET q == num \div den
        r == num % den
    IN IF 2 * r > den THEN q + 1
       ELSE IF 2 * r < den THEN q
       ELSE IF q % 2 = 0 THEN q ELSE q + 1

\* Mutant: the rating is not held at 0.0 from below.
_calculate_fair_play_rating_unclamped(yellow_cards, red_cards, total_matches) ==
    IF total_matches = 0 THEN 100
    ELSE RoundedTenths(100 * total_matches - 20 * (yellow_cards + 3 * red_cards),
                       total_matches)

\* _calculate_fair_play_rating: 10.0 without matches, else
\* round(max(0.0, 10.0 - (penalty / (total_matches * 5)) * 10.0), 1) with
\* penalty = yellow_cards * 1.0 + red_cards * 3.0.
_calculate_fair_play_rating(yellow_cards, red_cards, total_matches) ==
    IF total_matches = 0 THEN 100
    ELSE LET total_penalty == yellow_cards + 3 * red_cards
             num == 100 * total_matches - 20 * total_penalty
         IN IF num <= 0 THEN 0 ELSE RoundedTenths(num, total_matches)

\* One TeamDisciplinaryStats of calculate_team_disciplinary_stats.
TeamDisciplinaryRow(ms, evs, t) ==
    LET yellow_cards == team_yellow_cards(evs, t)
        red_cards == team_red_cards(evs, t)
        total_matches == _get_team_matches_count(ms, t)
    IN [team_id |-> t, team_name |-> TeamName(t),
        yellow_cards |-> yellow_cards, red_cards |-> red_cards,
        total_cards |-> yellow_cards + red_cards,
        fair_play_rating |-> _calculate_fair_play_rating(yellow_cards, red_cards, total_matches)]

\* calculate_team_disciplinary_stats: one row per team, in the order the
\* teams were read, then sort(key=-fair_play_rating).
calculate_team_disciplinary_stats(order) ==
    /\ Idle
    /\ LET rows == [i \in 1..NumTeams |-> TeamDisciplinaryRow(matches, events, order[i])]
           keys == [i \in 1..NumTeams |-> <<0 - rows[i].fair_play_rating>>]
       IN report' = [op |-> "calculate_team_disciplinary_stats", arg |-> 0,
                     raised |-> FALSE, rows |-> SortedBy(rows, keys)]
    /\ UNCHANGED <<season, league, matches, events, pc, teams_qs, snapshot, idx,
                   standings_map, standings>>

\* Mutant: the yellow cards are rounded to the nearest five.
_calculate_suspension_games_rounded(yellow_cards, red_cards) ==
    red_cards + ((yellow_cards + 2) \div 5)

\* _calculate_suspension_games: one game per red card, one per five yellows.
_calculate_suspension_games(yellow_cards, red_cards) == red_cards + (yellow_cards \div 5)

\* One DisciplinaryStats of calculate_disciplinary_stats.
DisciplinaryRow(evs, p) ==
    LET yellow_cards == player_yellow_cards(evs, p)
        red_cards == player_red_cards(evs, p)
    IN [player_id |-> p, player_name |-> PlayerName(p), team_name |-> TeamName(PlayerTeam(p)),
        yellow_cards |-> yellow_cards, red_cards |-> red_cards,
        total_cards |-> yellow_cards + red_cards,
        suspension_games |-> _calculate_suspension_games(yellow_cards, red_cards)]

\* calculate_disciplinary_stats: one row per player that has a card event,
\* then sort(key=(-total_cards, -red_cards)).
calculate_disciplinary_stats(order) ==
    /\ Idle
    /\ LET Carded(p) == player_yellow_cards(events, p) + player_red_cards(events, p) > 0
           players_with_cards == SelectSeq(order, Carded)
           rows == [i \in 1..Len(players_with_cards) |->
                       DisciplinaryRow(events, players_with_cards[i])]
           keys == [i \in 1..Len(rows) |-> <<0 - rows[i].total_cards, 0 - rows[i].red_cards>>]
       IN report' = [op |-> "calculate_disciplinary_stats", arg |-> 0,
                     raised |-> FALSE, rows |-> SortedBy(rows, keys)]
    /\ UNCHANGED <<season, league, matches, events, pc, teams_qs, snapshot, idx,
                   standings_map, standings>>

\* Mutant: the check issues the red card itself, as a second_yellow event.
check_automatic_red_card_issuing(player, i) ==
    /\ Idle
    /\ LET InMatch(e) == e.match = i /\ e.player = player /\ e.event_type = "yellow_card"
           yellow_card_in_match == Len(SelectSeq(events, InMatch))
       IN /\ report' = [op |-> "check_automatic_red_card", arg |-> player, raised |-> FALSE,
                        rows |-> <<yellow_card_in_match >= 2>>]
          /\ events' = IF yellow_card_in_match >= 2
                       THEN Append(events, NewEvent(i, "second_yellow", player, Null,
                                                    PlayerTeam(player), FALSE))
                       ELSE events
    /\ UNCHANGED <<season, league, matches, pc, teams_qs, snapshot, idx,
                   standings_map, standings>>

\* Mutant: the yellow cards of the player are counted over every match.
check_automatic_red_card_any_match(player, i) ==
    /\ Idle
    /\ LET InSeason(e) == e.player = player /\ e.event_type = "yellow_card"
           yellow_card_in_season == Len(SelectSeq(events, InSeason))
       IN report' = [op |-> "check_automatic_red_card", arg |-> player, raised |-> FALSE,
                     rows |-> <<yellow_card_in_season >= 2>>]
    /\ UNCHANGED <<season, league, matches, events, pc, teams_qs, snapshot, idx,
                   standings_map, standings>>

\* check_automatic_red_card(player, match): whether the player has two
\* yellow_card events in the match.
check_automatic_red_card(player, i) ==
    /\ Idle
    /\ LET InMatch(e) == e.match = i /\ e.player = player /\ e.event_type = "yellow_card"
           yellow_card_in_match == Len(SelectSeq(events, InMatch))
       IN report' = [op |-> "check_automatic_red_card", arg |-> player, raised |-> FALSE,
                     rows |-> <<yellow_card_in_match >= 2>>]
    /\ UNCHANGED <<season, league, matches, events, pc, teams_qs, snapshot, idx,
                   standings_map, standings>>

(***************************************************************************)
(* The specification of the match workflow and the standings report.       *)
(***************************************************************************)
\* The season configurations the workflow is explored under.
SeasonChoices ==
    {[points_per_win |-> Null, points_per_draw |-> Null, points_per_loss |-> Null,
      primary_tie_breaker |-> "goals_for", secondary_tie_breaker |-> "goal_difference"],
     [points_per_win |-> 2, points_per_draw |-> Null, points_per_loss |-> 1,
      primary_tie_breaker |-> "goal_difference", secondary_tie_breaker |-> "goals_for"]}

\* A season as the model fields default it: no override, the default rules.
DefaultSeason ==
    [points_per_win |-> Null, points_per_draw |-> Null, points_per_loss |-> Null,
     primary_tie_breaker |-> "goal_difference", secondary_tie_breaker |-> "goals_for"]

DefaultLeague ==
    [points_per_win |-> DefaultPointsPerWin, points_per_draw |-> DefaultPointsPerDraw,
     points_per_loss |-> DefaultPointsPerLoss]

CalcIdle ==
    /\ pc = "idle"
    /\ teams_qs = <<>>
    /\ snapshot = <<>>
    /\ idx = 0
    /\ standings_map = <<>>
    /\ standings = <<>>
    /\ report = NoReport

Init ==
    /\ season \in SeasonChoices
    /\ league = DefaultLeague
    /\ matches = <<>>
    /\ events = <<>>
    /\ CalcIdle

Next ==
    \/ \E h \in Teams, a \in Teams : CreateMatch(h, a)
    \/ \E i \in 1..Len(matches) : start_match(i)
    \/ \E i \in 1..Len(matches), hs \in Scores, as \in Scores : complete_match(i, hs, as)
    \/ \E i \in 1..Len(matches) : dispute_match(i)
    \/ \E order \in TeamOrders : StartStandings(order)
    \/ ProcessMatch
    \/ FinishStandings
    \/ ReturnStandings

Spec == Init /\ [][Next]_vars

\* The shape of the stored data.
TypeOK ==
    /\ season.primary_tie_breaker \in TIE_BREAKER_CHOICES
    /\ season.secondary_tie_breaker \in TIE_BREAKER_CHOICES
    /\ \A f \in {season.points_per_win, season.points_per_draw, season.points_per_loss} :
          f = Null \/ f >= 0
    /\ \A i \in 1..Len(matches) :
          /\ matches[i].status \in MATCH_STATUS_CHOICES
          /\ matches[i].home_team \in Teams /\ matches[i].away_team \in Teams
          /\ matches[i].home_team # matches[i].away_team
          /\ matches[i].home_score \in Scores /\ matches[i].away_score \in Scores
    /\ \A k \in 1..Len(events) :
          /\ events[k].match \in 1..Len(matches)
          /\ events[k].event_type \in EVENT_TYPE_CHOICES
          /\ events[k].player \in Players
    /\ pc \in {"idle", "fold", "done", "sheets"}

(***************************************************************************)
(* The specification of the points configuration: every combination of    *)
(* season overrides and league defaults, and the saves that change them.   *)
(***************************************************************************)
PointValues == 0..MaxPoints

\* Season.points_per_win / _draw / _loss are saved (None or a value).
SaveSeasonPoints(w, d, l) ==
    /\ season' = [season EXCEPT !.points_per_win = w, !.points_per_draw = d,
                                !.points_per_loss = l]
    /\ season' # season
    /\ UNCHANGED <<league, matches, events, calcVars>>

\* League.points_per_win / _draw / _loss are saved.
SaveLeaguePoints(w, d, l) ==
    /\ league' = [points_per_win |-> w, points_per_draw |-> d, points_per_loss |-> l]
    /\ league' # league
    /\ UNCHANGED <<season, matches, events, calcVars>>

InitPoints ==
    /\ season = DefaultSeason
    /\ league = DefaultLeague
    /\ matches = <<>>
    /\ events = <<>>
    /\ CalcIdle

NextPoints ==
    \/ \E w \in {Null} \cup PointValues, d \in {Null} \cup PointValues,
          l \in {Null} \cup PointValues : SaveSeasonPoints(w, d, l)
    \/ \E w \in PointValues, d \in PointValues, l \in PointValues : SaveLeaguePoints(w, d, l)

SpecPoints == InitPoints /\ [][NextPoints]_vars

(***************************************************************************)
(* The specification of the match events: a fixture list whose matches     *)
(* change status while events are recorded on them.  No event-based        *)
(* report reads a score, so matches are completed 0-0 here.                *)
(***************************************************************************)
Fixture(i) == MatchSave(NewMatch(((i - 1) % NumTeams) + 1, (i % NumTeams) + 1))

\* The (event_type, is_own_goal) pairs events are recorded with.
EventInputs ==
    (EVENT_TYPE_CHOICES \X {FALSE}) \cup ({"goal", "penalty_goal"} \X {TRUE})

InitEvents ==
    /\ season = DefaultSeason
    /\ league = DefaultLeague
    /\ matches = [i \in 1..MaxMatches |-> Fixture(i)]
    /\ events = <<>>
    /\ CalcIdle

NextEvents ==
    \/ \E i \in 1..Len(matches) : start_match(i)
    \/ \E i \in 1..Len(matches) : complete_match(i, 0, 0)
    \/ \E i \in 1..Len(matches) : dispute_match(i)
    \/ \E i \in 1..Len(matches), x \in EventInputs, p \in Players :
          RecordEvent(i, x[1], p, Null, PlayerTeam(p), x[2])

SpecEvents == InitEvents /\ [][NextEvents]_vars


(***************************************************************************)
(* The specification of the leaderboards: every event table of up to       *)
(* MaxBoardEvents goal, own-goal, assist and card events, and the two      *)
(* leaderboard calls on it with every limit of Limits.                     *)
(***************************************************************************)
MaxBoardEvents == 3
MaxLimit == 2

Limits == (0 - 1)..MaxLimit

\* The (event_type, is_own_goal) pairs of the event tables.
BoardEventInputs ==
    <<<<"goal", FALSE>>, <<"goal", TRUE>>, <<"penalty_goal", FALSE>>,
      <<"own_goal", FALSE>>, <<"assist", FALSE>>>>

\* The k-th event row the tables are made of: an input, saved for a player.
BoardEvent(k) ==
    LET x == BoardEventInputs[((k - 1) \div NumPlayers) + 1]
        p == ((k - 1) % NumPlayers) + 1
    IN MatchEventSave(NewEvent(1, x[1], p, Null, PlayerTeam(p), x[2]))

\* The event tables of n rows.  The leaderboards count rows, so tables that
\* differ only in the order of their rows are listed once.
BoardTables(n) ==
    {[i \in 1..n |-> BoardEvent(f[i])] :
        f \in {g \in [1..n -> 1..(Len(BoardEventInputs) * NumPlayers)] :
                  \A i \in 1..n, j \in 1..n : i < j => g[i] <= g[j]}}

InitBoards ==
    /\ season = DefaultSeason
    /\ league = DefaultLeague
    /\ matches = [i \in 1..MaxMatches |-> Fixture(i)]
    /\ events \in UNION {BoardTables(n) : n \in 0..MaxBoardEvents}
    /\ CalcIdle

NextBoards ==
    \/ \E limit \in Limits, order \in PlayerOrders : get_top_scorers(limit, order)
    \/ \E limit \in Limits, order \in PlayerOrders : get_top_assists(limit, order)
    \/ ReturnReport

SpecBoards == InitBoards /\ [][NextBoards]_vars
(***************************************************************************)
(* The specification of the clean sheets: a fixture list in which team 1   *)
(* plays every match, the matches starting and completing with every       *)
(* score, the flag update and the two clean-sheet reports.                 *)
(***************************************************************************)
MaxSheetMatches == 3

\* Team 1 at home to, then away at, the other teams in turn.
SheetFixture(i) ==
    LET other == 2 + ((i \div 2) % (NumTeams - 1))
    IN MatchSave(IF i % 2 = 1 THEN NewMatch(1, other) ELSE NewMatch(other, 1))

InitSheets ==
    /\ season = DefaultSeason
    /\ league = DefaultLeague
    /\ matches = [i \in 1..MaxSheetMatches |-> SheetFixture(i)]
    /\ events = <<>>
    /\ CalcIdle

NextSheets ==
    \/ \E i \in 1..Len(matches) : start_match(i)
    \/ \E i \in 1..Len(matches), hs \in Scores, as \in Scores : complete_match(i, hs, as)
    \/ \E i \in 1..Len(matches) : update_match_clean_sheet(i)
    \/ \E order \in TeamOrders : calculate_clean_sheets(order)
    \/ \E order \in GoalkeeperOrders : calculate_goalkeeper_clean_sheets(order)
    \/ ReturnReport

SpecSheets == InitSheets /\ [][NextSheets]_vars

(***************************************************************************)
(* The specification of the fair-play rating: the fixture list in which    *)
(* team 1 plays every match, the matches completing, cards and other       *)
(* events recorded for every player, and the team disciplinary report.     *)
(***************************************************************************)
\* The event types recorded here: the three cards and one that is no card.
CardEventTypes == {"yellow_card", "red_card", "second_yellow", "goal"}

NextCards ==
    \/ \E i \in 1..Len(matches) : complete_match(i, 0, 0)
    \/ \E i \in 1..Len(matches), type \in CardEventTypes, p \in Players :
          RecordEvent(i, type, p, Null, PlayerTeam(p), FALSE)
    \/ \E order \in TeamOrders : calculate_team_disciplinary_stats(order)
    \/ ReturnReport

SpecCards == InitSheets /\ [][NextCards]_vars

(***************************************************************************)
(* The specification of the core operations together: every report, the    *)
(* red-card check and the flag update, on a fixture list whose matches     *)
(* complete while goals and yellow cards are recorded on the first.        *)
(***************************************************************************)
NextReports ==
    \/ \E i \in 1..Len(matches), hs \in Scores : complete_match(i, hs, 0)
    \/ \E type \in {"goal", "yellow_card"}, p \in Players :
          RecordEvent(1, type, p, Null, PlayerTeam(p), FALSE)
    \/ \E i \in 1..Len(matches) : update_match_clean_sheet(i)
    \/ \E order \in TeamOrders : StartStandings(order)
    \/ ProcessMatch
    \/ FinishStandings
    \/ ReturnStandings
    \/ \E limit \in Limits, order \in PlayerOrders : get_top_scorers(limit, order)
    \/ \E limit \in Limits, order \in PlayerOrders : get_top_assists(limit, order)
    \/ \E order \in TeamOrders : calculate_clean_sheets(order)
    \/ \E order \in GoalkeeperOrders : calculate_goalkeeper_clean_sheets(order)
    \/ \E order \in PlayerOrders : calculate_disciplinary_stats(order)
    \/ \E order \in TeamOrders : calculate_team_disciplinary_stats(order)
    \/ \E p \in Players, i \in 1..Len(matches) : check_automatic_red_card(p, i)
    \/ ReturnReport

SpecReports == InitEvents /\ [][NextReports]_vars

(***************************************************************************)
(* The specification of the player disciplinary report: the event tables   *)
(* of up to MaxCardEvents card and goal events of every player, those of   *)
(* up to MaxPlayerCards yellow and red cards of two players, and the       *)
(* report on each.                                                         *)
(***************************************************************************)
MaxCardEvents == 4
MaxPlayerCards == 6

\* The event types of the card tables: the three cards and one that is no card.
CardEventInputs == <<"yellow_card", "red_card", "second_yellow", "goal">>

\* The k-th event row the card tables are made of: a type, saved for a
\* player of the player's own team.
CardEvent(k) ==
    LET p == ((k - 1) % NumPlayers) + 1
    IN MatchEventSave(NewEvent(1, CardEventInputs[((k - 1) \div NumPlayers) + 1], p,
                               Null, PlayerTeam(p), FALSE))

\* The nondecreasing sequences of n numbers of lo..hi.
RECURSIVE NonDecreasing(_, _, _)
NonDecreasing(n, lo, hi) ==
    IF n = 0 THEN {<<>>}
    ELSE UNION {{<<k>> \o s : s \in NonDecreasing(n - 1, k, hi)} : k \in lo..hi}

\* The event tables of n rows.  The report counts rows, so tables that
\* differ only in the order of their rows are listed once.
CardTables(n) ==
    {[i \in 1..n |-> CardEvent(f[i])] :
        f \in NonDecreasing(n, 1, Len(CardEventInputs) * NumPlayers)}

\* The rows of the tables of many cards: yellow_card and red_card events
\* of players 1 and 2.
ManyCardsInputs == <<1, 2, NumPlayers + 1, NumPlayers + 2>>

ManyCardsTables(n) ==
    {[i \in 1..n |-> CardEvent(ManyCardsInputs[f[i]])] :
        f \in NonDecreasing(n, 1, Len(ManyCardsInputs))}

InitPlayerCards ==
    /\ season = DefaultSeason
    /\ league = DefaultLeague
    /\ matches = [i \in 1..MaxMatches |-> Fixture(i)]
    /\ events \in UNION ({CardTables(n) : n \in 0..MaxCardEvents}
                             \cup {ManyCardsTables(n) : n \in 0..MaxPlayerCards})
    /\ CalcIdle

NextPlayerCards ==
    \/ \E order \in PlayerOrders : calculate_disciplinary_stats(order)
    \/ ReturnReport

SpecPlayerCards == InitPlayerCards /\ [][NextPlayerCards]_vars

(***************************************************************************)
(* The specification of the red-card check: the event tables of up to      *)
(* MaxCheckEvents card and goal events on the matches of the fixture list, *)
(* and the check for every player and match.                               *)
(***************************************************************************)
MaxCheckEvents == 3

\* The k-th event row the tables are made of: a row of the card tables, on
\* one of the matches.
MatchCardEvent(k) ==
    LET n == Len(CardEventInputs) * NumPlayers
    IN [CardEvent(((k - 1) % n) + 1) EXCEPT !.match = ((k - 1) \div n) + 1]

MatchCardTables(n) ==
    {[i \in 1..n |-> MatchCardEvent(f[i])] :
        f \in NonDecreasing(n, 1, MaxMatches * Len(CardEventInputs) * NumPlayers)}

InitCheck ==
    /\ season = DefaultSeason
    /\ league = DefaultLeague
    /\ matches = [i \in 1..MaxMatches |-> Fixture(i)]
    /\ events \in UNION {MatchCardTables(n) : n \in 0..MaxCheckEvents}
    /\ CalcIdle

NextCheck ==
    \/ \E p \in Players, i \in 1..Len(matches) : check_automatic_red_card(p, i)
    \/ ReturnReport

SpecCheck == InitCheck /\ [][NextCheck]_vars

(***************************************************************************)
(* The specification of the events that clean() would reject: on a season  *)
(* whose matches are completed, goals, assists and yellow cards are        *)
(* recorded for every player with any team and with or without a related   *)
(* player, and the event-based reports are asked.                          *)
(***************************************************************************)
\* The fixture list, every match completed without goals.
InitCompleted ==
    /\ season = DefaultSeason
    /\ league = DefaultLeague
    /\ matches = [i \in 1..MaxMatches |->
                     MatchSave([Fixture(i) EXCEPT !.status = "completed"])]
    /\ events = <<>>
    /\ CalcIdle

NextUnvalidated ==
    \/ \E type \in {"goal", "assist", "yellow_card"}, p \in Players,
          related_player \in {Null, NumPlayers}, team \in Teams :
          RecordEvent(1, type, p, related_player, team, FALSE)
    \/ \E order \in PlayerOrders : get_top_scorers(MaxLimit, order)
    \/ \E order \in PlayerOrders : get_top_assists(MaxLimit, order)
    \/ \E order \in TeamOrders : calculate_team_disciplinary_stats(order)
    \/ ReturnReport

SpecUnvalidated == InitCompleted /\ [][NextUnvalidated]_vars

(***************************************************************************)
(* The specification of the standings fold: the fixture list in which team *)
(* 1 plays every match, the matches completing with every score, and the   *)
(* standings report.                                                       *)
(***************************************************************************)
NextFold ==
    \/ \E i \in 1..Len(matches), hs \in Scores, as \in Scores : complete_match(i, hs, as)
    \/ \E order \in TeamOrders : StartStandings(order)
    \/ ProcessMatch
    \/ FinishStandings
    \/ ReturnStandings

SpecFold == InitSheets /\ [][NextFold]_vars

(***************************************************************************)
(* The specification of the clean-sheet flags: the matches of the fixture  *)
(* list starting, completing with every score and being disputed, in any   *)
(* order and any number of times, the flag update and the team clean-sheet *)
(* report.                                                                 *)
(***************************************************************************)
NextFlags ==
    \/ \E i \in 1..Len(matches) : start_match(i)
    \/ \E i \in 1..Len(matches), hs \in Scores, as \in Scores : complete_match(i, hs, as)
    \/ \E i \in 1..Len(matches) : dispute_match(i)
    \/ \E i \in 1..Len(matches) : update_match_clean_sheet(i)
    \/ \E order \in TeamOrders : calculate_clean_sheets(order)
    \/ ReturnReport

SpecFlags == InitEvents /\ [][NextFlags]_vars

(***************************************************************************)
(* calculate_clean_sheets one loop iteration at a time, and the Match      *)
(* operations of another request that land while the loop runs.  The loop  *)
(* queries the Match table anew for every team; no transaction spans it.   *)
(***************************************************************************)
\* teams = Team.objects.filter(league=...); clean_sheet_stats = []
StartCleanSheets(order) ==
    /\ Idle
    /\ pc' = "sheets"
    /\ teams_qs' = order
    /\ idx' = 1
    /\ report' = [op |-> "calculate_clean_sheets", arg |-> 0, raised |-> FALSE,
                  rows |-> <<>>]
    /\ UNCHANGED <<season, league, matches, events, snapshot, standings_map, standings>>

\* One iteration of `for team in teams`: the count queries of the team run
\* on the Match table as it is now, and the row is appended.
CleanSheetsTeam ==
    /\ pc = "sheets"
    /\ idx <= Len(teams_qs)
    /\ report' = [report EXCEPT !.rows = Append(@, CleanSheetRow(matches, teams_qs[idx]))]
    /\ idx' = idx + 1
    /\ UNCHANGED <<season, league, matches, events, pc, teams_qs, snapshot,
                   standings_map, standings>>

\* After the loop: the sort; the call is over and holds its result.
FinishCleanSheets ==
    /\ pc = "sheets"
    /\ idx > Len(teams_qs)
    /\ LET rows == report.rows
           keys == [i \in 1..Len(rows) |->
                       <<0 - rows[i].clean_sheets, 0 - rows[i].clean_sheet_percentage>>]
       IN report' = [report EXCEPT !.rows = SortedBy(rows, keys)]
    /\ pc' = "idle"
    /\ teams_qs' = <<>>
    /\ idx' = 0
    /\ UNCHANGED <<season, league, matches, events, snapshot, standings_map, standings>>

\* The fixture list as scheduled.
FixtureList == [i \in 1..MaxMatches |-> Fixture(i)]

\* The write of another request lands while the loop runs, on a table no
\* other write has touched since the fixtures were scheduled: there is one
\* write beside the report.
OneWriteBesideReport == pc = "sheets" /\ matches = FixtureList

complete_match_beside_report(i, home_score, away_score) ==
    /\ OneWriteBesideReport
    /\ matches' = [matches EXCEPT ![i] =
                      MatchSave([@ EXCEPT !.home_score = home_score,
                                          !.away_score = away_score,
                                          !.status = "completed"])]
    /\ UNCHANGED <<season, league, events, calcVars>>

dispute_match_beside_report(i) ==
    /\ OneWriteBesideReport
    /\ matches' = [matches EXCEPT ![i] = MatchSave([@ EXCEPT !.status = "disputed"])]
    /\ UNCHANGED <<season, league, events, calcVars>>

update_match_clean_sheet_beside_report(i) ==
    /\ OneWriteBesideReport
    /\ LET m == matches[i] IN
       matches' = [matches EXCEPT ![i] =
                      MatchSave([m EXCEPT !.home_clean_sheet = (m.away_score = 0),
                                          !.away_clean_sheet = (m.home_score = 0)])]
    /\ UNCHANGED <<season, league, events, calcVars>>

(***************************************************************************)
(* The specification of a report beside a write: the fixture list as       *)
(* scheduled, the team clean-sheet report taken team by team, and one      *)
(* Match operation landing while it runs.                                  *)
(***************************************************************************)
NextBeside ==
    \/ \E order \in TeamOrders : StartCleanSheets(order)
    \/ CleanSheetsTeam
    \/ FinishCleanSheets
    \/ ReturnReport
    \/ \E i \in 1..Len(matches), hs \in Scores, as \in Scores :
          complete_match_beside_report(i, hs, as)
    \/ \E i \in 1..Len(matches) : dispute_match_beside_report(i)
    \/ \E i \in 1..Len(matches) : update_match_clean_sheet_beside_report(i)

SpecBeside == InitEvents /\ [][NextBeside]_vars

(***************************************************************************)
(* Reference quantities the claims are stated with.  They are computed     *)
(* from the stored matches directly, not through the calculator.           *)
(***************************************************************************)
RECURSIVE SumSeq(_, _, _)
SumSeq(F(_), seq, i) == IF i > Len(seq) THEN 0 ELSE F(seq[i]) + SumSeq(F, seq, i + 1)

RECURSIVE SumTeams(_, _)
SumTeams(F(_), n) == IF n = 0 THEN 0 ELSE F(n) + SumTeams(F, n - 1)

StatusCompleted(m) == m.status = "completed"

OnlyCompleted(ms) == SelectSeq(ms, StatusCompleted)

\* The effective value of one outcome category: the season's own value when
\* it is set, the league default otherwise.
Effective(own, default) == IF own = Null THEN default ELSE own

EffWin == Effective(season.points_per_win, league.points_per_win)
EffDraw == Effective(season.points_per_draw, league.points_per_draw)
EffLoss == Effective(season.points_per_loss, league.points_per_loss)

Decisive(m) == m.home_score # m.away_score

Awarded(m) == IF Decisive(m) THEN EffWin + EffLoss ELSE 2 * EffDraw

Plays(t, m) == m.home_team = t \/ m.away_team = t

OwnScore(t, m) == IF m.home_team = t THEN m.home_score ELSE m.away_score

OtherScore(t, m) == IF m.home_team = t THEN m.away_score ELSE m.home_score

ResultOf(t, m) ==
    IF OwnScore(t, m) > OtherScore(t, m) THEN "W"
    ELSE IF OwnScore(t, m) < OtherScore(t, m) THEN "L" ELSE "D"

\* The results of team t in the matches ms, oldest first.
RECURSIVE ResultsOf(_, _, _)
ResultsOf(t, ms, i) ==
    IF i > Len(ms) THEN <<>>
    ELSE IF Plays(t, ms[i]) THEN <<ResultOf(t, ms[i])>> \o ResultsOf(t, ms, i + 1)
    ELSE ResultsOf(t, ms, i + 1)

Recent(f) == IF Len(f) <= 5 THEN f ELSE SubSeq(f, Len(f) - 4, Len(f))

CalcDone == pc = "done"

\* The fetched matches are all decisive and a loss is worth no points: on
\* such a season the points the code awards are the points the spec awards.
ScoredAsSpecified == EffLoss = 0 /\ \A k \in 1..Len(snapshot) : Decisive(snapshot[k])

RowPos == 1..Len(standings)

\* The position of team t in the returned table.
PosOf(t) == CHOOSE i \in RowPos : standings[i].team_id = t

(***************************************************************************)
(* C1.  The sum of points over all rows of the standings equals the sum    *)
(* over completed matches of the points the match awards: win + loss for   *)
(* a decisive match, 2 * draw for a drawn one.  (Stated as claimed; the    *)
(* code never awards the loss points.)                                     *)
(***************************************************************************)
C1_RowPoints(i) == standings[i].points

C1_PointsSumIsAwarded ==
    CalcDone => SumTeams(C1_RowPoints, Len(standings)) = SumSeq(Awarded, snapshot, 1)

(***************************************************************************)
(* C2.  Processing one completed match gives the team with the higher      *)
(* score exactly the win points and the other team exactly the loss        *)
(* points, or both teams exactly the draw points; no other team's points   *)
(* change.  (Stated as claimed.)                                           *)
(***************************************************************************)
C2_Gain(t, m) ==
    IF ~Plays(t, m) THEN 0
    ELSE IF ~Decisive(m) THEN EffDraw
    ELSE IF OwnScore(t, m) > OtherScore(t, m) THEN EffWin ELSE EffLoss

C2_MatchStep == pc = "fold" /\ pc' = "fold" /\ idx' = idx + 1

C2_PointsPerMatch ==
    [][C2_MatchStep =>
         \A t \in Teams :
            standings_map'[t].points = standings_map[t].points + C2_Gain(t, snapshot[idx])]_vars

(***************************************************************************)
(* C6.  In every returned row goalDifference = goalsFor - goalsAgainst,    *)
(* goalsFor is the sum of the team's own scores and goalsAgainst the sum   *)
(* of its opponents' scores over the completed matches it played.          *)
(***************************************************************************)
C6_OwnGoals(t) ==
    LET G(m) == IF Plays(t, m) THEN OwnScore(t, m) ELSE 0
    IN SumSeq(G, OnlyCompleted(matches), 1)

C6_OtherGoals(t) ==
    LET G(m) == IF Plays(t, m) THEN OtherScore(t, m) ELSE 0
    IN SumSeq(G, OnlyCompleted(matches), 1)

C6_GoalDifference ==
    CalcDone =>
        \A i \in RowPos :
            /\ standings[i].goal_difference = standings[i].goals_for - standings[i].goals_against
            /\ standings[i].goals_for = C6_OwnGoals(standings[i].team_id)
            /\ standings[i].goals_against = C6_OtherGoals(standings[i].team_id)

C6_Witness ==
    /\ CalcDone
    /\ \E i \in RowPos :
          /\ standings[i].goals_for > standings[i].goals_against
          /\ standings[i].goals_against > 0
          /\ standings[i].matches_played = 2

(***************************************************************************)
(* C7.  While matches are folded in match-date order, every team's form    *)
(* is the list of its own results in the matches processed so far, kept    *)
(* to the most recent five, oldest first; so each match adds one entry to  *)
(* each side.  (Stated as claimed.)                                        *)
(***************************************************************************)
C7_FormIsOwnResults ==
    pc \in {"fold", "done"} =>
        \A t \in Teams :
            standings_map[t].form = Recent(ResultsOf(t, SubSeq(snapshot, 1, idx - 1), 1))

(***************************************************************************)
(* C8.  Among teams with equal points the table follows the season's       *)
(* configured tie-break sequence (primary, then secondary; a rule that     *)
(* aggregate counters cannot resolve falls back to the next one).          *)
(* (Stated as claimed, on seasons whose points are awarded as specified,   *)
(* so that a violation does not rest on the scoring of C1 and C2.)         *)
(***************************************************************************)
C8_Resolvable(rule) == rule \in {"goal_difference", "goals_for"}

C8_Value(rule, x) == IF rule = "goal_difference" THEN x.goal_difference ELSE x.goals_for

\* x is preferred to y by the first configured rule that tells them apart.
RECURSIVE C8_Prefers(_, _, _, _)
C8_Prefers(rules, k, x, y) ==
    IF k > Len(rules) THEN FALSE
    ELSE IF C8_Resolvable(rules[k]) /\ C8_Value(rules[k], x) # C8_Value(rules[k], y)
    THEN C8_Value(rules[k], x) > C8_Value(rules[k], y)
    ELSE C8_Prefers(rules, k + 1, x, y)

C8_ConfiguredTieBreak ==
    (CalcDone /\ ScoredAsSpecified) =>
        \A i \in RowPos, j \in RowPos :
            (i < j /\ standings[i].points = standings[j].points)
                => ~C8_Prefers(get_tie_breaker_rules(season), 1, standings[j], standings[i])

(***************************************************************************)
(* C9.  The table is strictly ordered: points descending first, team name  *)
(* ascending last; no two rows compare equal, and the returned sequence    *)
(* is determined by the rows alone, whatever order the teams were read in. *)
(***************************************************************************)
C9_SameStats(x, y) ==
    /\ x.points = y.points
    /\ x.goal_difference = y.goal_difference
    /\ x.goals_for = y.goals_for

C9_StrictTotalOrder ==
    CalcDone =>
        /\ \A i \in RowPos, j \in RowPos :
              i < j =>
                 /\ standings[i].points >= standings[j].points
                 /\ standings[i].team_name # standings[j].team_name
                 /\ C9_SameStats(standings[i], standings[j])
                       => standings[i].team_name < standings[j].team_name
        /\ standings = SortStandings([t \in 1..NumTeams |-> standings_map[t]], 1, <<>>)

C9_Witness ==
    /\ CalcDone
    /\ \E i \in 1..NumTeams, j \in 1..NumTeams :
          /\ i < j
          /\ C9_SameStats(standings_map[teams_qs[i]], standings_map[teams_qs[j]])
          /\ TeamName(teams_qs[i]) > TeamName(teams_qs[j])
          /\ standings_map[teams_qs[i]].matches_played > 0

(***************************************************************************)
(* C10.  As claimed: every team appears exactly once, a team without a     *)
(* completed match has all counters zero and no team that has played is    *)
(* ranked below it.  (Checked on seasons whose points are awarded as       *)
(* specified, so that a violation does not rest on the scoring of C1, C2.) *)
(***************************************************************************)
C10_EachTeamOnce ==
    /\ Len(standings) = NumTeams
    /\ \A t \in Teams : Cardinality({i \in RowPos : standings[i].team_id = t}) = 1

C10_Unplayed(x) == ~\E k \in 1..Len(matches) : StatusCompleted(matches[k]) /\ Plays(x.team_id, matches[k])

C10_AllZero(x) ==
    /\ x.matches_played = 0 /\ x.wins = 0 /\ x.draws = 0 /\ x.losses = 0
    /\ x.goals_for = 0 /\ x.goals_against = 0 /\ x.goal_difference = 0 /\ x.points = 0

C10_UnplayedRankedLast ==
    (CalcDone /\ ScoredAsSpecified) =>
        /\ C10_EachTeamOnce
        /\ \A i \in RowPos :
              C10_Unplayed(standings[i]) =>
                 /\ C10_AllZero(standings[i])
                 /\ \A j \in RowPos : j > i => C10_Unplayed(standings[j])

(***************************************************************************)
(* C10, amended.  Every team appears exactly once; a team without a        *)
(* completed match has all counters zero, and no team with more points,    *)
(* or with equal points and a better goal difference, is ranked below it.  *)
(***************************************************************************)
C10_UnplayedRankedByKey ==
    CalcDone =>
        /\ C10_EachTeamOnce
        /\ \A i \in RowPos :
              C10_Unplayed(standings[i]) =>
                 /\ C10_AllZero(standings[i])
                 /\ \A j \in RowPos :
                       j > i =>
                          /\ standings[j].points <= standings[i].points
                          /\ standings[j].points = standings[i].points
                                => standings[j].goal_difference <= standings[i].goal_difference

C10_Witness ==
    /\ CalcDone
    /\ \E i \in RowPos, j \in RowPos :
          /\ i < j
          /\ C10_Unplayed(standings[i])
          /\ standings[j].matches_played > 0

(***************************************************************************)
(* C4.  The match-result statistics (standings rows, team and goalkeeper   *)
(* clean sheets and matches played, the matches-played count of the fair   *)
(* play rating) depend only on the completed matches: a write that adds    *)
(* or changes matches that are not completed before and after it leaves    *)
(* every one of these outputs unchanged.                                   *)
(***************************************************************************)
C4_OnlyCompletedMatchesCount ==
    [][(matches' # matches /\ OnlyCompleted(matches') = OnlyCompleted(matches))
          => C4_MatchReports' = C4_MatchReports]_vars

\* A match that is not completed carries a score, its home team has no
\* completed match, and another match is completed.
C4_Witness ==
    \E i \in 1..Len(matches), j \in 1..Len(matches) :
        /\ matches[i].status = "disputed"
        /\ matches[i].home_score > 0
        /\ matches[i].away_score = 0
        /\ matches[j].status = "completed"
        /\ _get_team_matches_count(matches, matches[i].home_team) = 0
        /\ CleanSheetRow(matches, matches[i].home_team).clean_sheets = 0

\* The step-by-step fold and the one-call form of calculate_standings agree.
FoldAgrees == CalcDone => standings_map = StandingsRows(matches, season, league)

(***************************************************************************)
(* C3.  The effective points of each outcome category are the season's     *)
(* own value whenever it is set, 0 included, and the league default only   *)
(* when it is not set.  (Stated as claimed, of every Season class of the   *)
(* app.)                                                                   *)
(***************************************************************************)
C3_EffectivePoints ==
    /\ actual_points_per_win(season, league) = EffWin
    /\ actual_points_per_draw(season, league) = EffDraw
    /\ actual_points_per_loss(season, league) = EffLoss
    /\ league_py_actual_points_per_win(season, league) = EffWin
    /\ league_py_actual_points_per_draw(season, league) = EffDraw

(***************************************************************************)
(* C5.  The event-based statistics (goals and assists per player, yellow   *)
(* and red cards per player and per team) count only the events of         *)
(* completed matches.  (Stated as claimed.)                                *)
(***************************************************************************)
C5_OfCompletedMatch(e) == matches[e.match].status = "completed"

C5_CountedEvents == SelectSeq(events, C5_OfCompletedMatch)

C5_OnlyCompletedMatchEventsCount ==
    /\ \A p \in Players :
          /\ total_goals(events, p) = total_goals(C5_CountedEvents, p)
          /\ total_assists(events, p) = total_assists(C5_CountedEvents, p)
          /\ player_yellow_cards(events, p) = player_yellow_cards(C5_CountedEvents, p)
          /\ player_red_cards(events, p) = player_red_cards(C5_CountedEvents, p)
    /\ \A t \in Teams :
          /\ team_yellow_cards(events, t) = team_yellow_cards(C5_CountedEvents, t)
          /\ team_red_cards(events, t) = team_red_cards(C5_CountedEvents, t)

(***************************************************************************)
(* Reference quantities of the leaderboard claims, counted on the event    *)
(* table directly.                                                         *)
(***************************************************************************)
QualifyingGoals(p) ==
    Cardinality({k \in 1..Len(events) :
                    /\ events[k].player = p
                    /\ events[k].event_type \in {"goal", "penalty_goal"}
                    /\ ~events[k].is_own_goal})

QualifyingAssists(p) ==
    Cardinality({k \in 1..Len(events) :
                    events[k].player = p /\ events[k].event_type = "assist"})

BoardCalled == report.op \in {"get_top_scorers", "get_top_assists"}

BoardReturned == BoardCalled /\ ~report.raised

BoardPos == 1..Len(report.rows)

\* The count a leaderboard row carries, and the count of a player.
BoardCount(row) == IF report.op = "get_top_scorers" THEN row.goals ELSE row.assists

PlayerCount(p) ==
    IF report.op = "get_top_scorers" THEN QualifyingGoals(p) ELSE QualifyingAssists(p)

Omitted(p) == \A i \in BoardPos : report.rows[i].player_id # p

(***************************************************************************)
(* C11.  For a positive limit a leaderboard has at most limit entries,     *)
(* its counts are non-increasing along the sequence, and no omitted        *)
(* player has a strictly greater count than a returned player.             *)
(***************************************************************************)
C11_BoundedSortedTop ==
    (BoardReturned /\ report.arg > 0) =>
        /\ Len(report.rows) <= report.arg
        /\ \A i \in BoardPos, j \in BoardPos :
              i < j => BoardCount(report.rows[i]) >= BoardCount(report.rows[j])
        /\ \A p \in Players, i \in BoardPos :
              Omitted(p) => PlayerCount(p) <= BoardCount(report.rows[i])

\* The limit cuts the board: it is full, its first count is 2 and a player
\* with a smaller positive count is left out.
C11_Witness ==
    /\ BoardReturned
    /\ report.arg > 0
    /\ Len(report.rows) = report.arg
    /\ BoardCount(report.rows[1]) = 2
    /\ \E p \in Players : Omitted(p) /\ PlayerCount(p) = 1

(***************************************************************************)
(* C12.  A leaderboard call with a limit of 0 or less fails and returns    *)
(* no leaderboard, never an empty or partial list.  (Stated as claimed.)   *)
(***************************************************************************)
C12_NonPositiveLimitFails ==
    (BoardCalled /\ report.arg <= 0) => (report.raised /\ report.rows = <<>>)

(***************************************************************************)
(* C13.  The goal count of a top-scorers row is the number of the          *)
(* player's goal and penalty_goal events that are not flagged as own       *)
(* goals; own_goal events and flagged goal events add to no tally, and a   *)
(* player without a qualifying event has no row.                           *)
(***************************************************************************)
C13_GoalTally ==
    (report.op = "get_top_scorers" /\ ~report.raised) =>
        \A i \in BoardPos :
            /\ report.rows[i].goals = QualifyingGoals(report.rows[i].player_id)
            /\ report.rows[i].goals > 0

\* A returned scorer also has an own_goal event and a goal event flagged as
\* an own goal, and a player whose only event is an own goal is left out of a
\* board that had room for it.
C13_Witness ==
    /\ report.op = "get_top_scorers" /\ ~report.raised
    /\ Len(report.rows) < report.arg
    /\ \E i \in BoardPos, k \in 1..Len(events) :
          /\ events[k].player = report.rows[i].player_id
          /\ events[k].is_own_goal
    /\ \E p \in Players, k \in 1..Len(events) :
          /\ Omitted(p)
          /\ events[k].player = p
          /\ events[k].event_type = "goal" /\ events[k].is_own_goal

(***************************************************************************)
(* C14.  Players with equal counts are ordered by player name ascending,   *)
(* and where the limit cuts through a group of equal counts the players    *)
(* kept are those with the smallest names.  (Stated as claimed.)           *)
(***************************************************************************)
C14_TiesByName ==
    (BoardReturned /\ report.arg > 0) =>
        /\ \A i \in BoardPos, j \in BoardPos :
              (i < j /\ BoardCount(report.rows[i]) = BoardCount(report.rows[j]))
                  => report.rows[i].player_name < report.rows[j].player_name
        /\ \A p \in Players, i \in BoardPos :
              (Omitted(p) /\ PlayerCount(p) = BoardCount(report.rows[i]))
                  => report.rows[i].player_name < PlayerName(p)

(***************************************************************************)
(* Reference quantities of the clean-sheet claims, counted on the stored   *)
(* matches and their scores directly.                                      *)
(***************************************************************************)
\* The completed matches team t played, and those in which it conceded none.
PlayedBy(t) ==
    {k \in 1..Len(matches) : StatusCompleted(matches[k]) /\ Plays(t, matches[k])}

KeptCleanBy(t) == {k \in PlayedBy(t) : OtherScore(t, matches[k]) = 0}

ReportPos == 1..Len(report.rows)

TeamSheetsReturned == report.op = "calculate_clean_sheets"

GoalkeeperSheetsReturned == report.op = "calculate_goalkeeper_clean_sheets"

\* p is the value, in tenths, nearest to 1000 * num / den.
NearestTenth(p, num, den) ==
    /\ 2 * (p * den - 1000 * num) <= den
    /\ 2 * (1000 * num - p * den) <= den

C16_Percentage ==
    TeamSheetsReturned =>
        /\ \A i \in ReportPos :
              LET x == report.rows[i] IN
              /\ x.clean_sheets <= x.matches_played
              /\ x.clean_sheet_percentage >= 0 /\ x.clean_sheet_percentage <= 1000
              /\ x.matches_played = 0 => x.clean_sheet_percentage = 0
              /\ x.matches_played > 0 =>
                    NearestTenth(x.clean_sheet_percentage, x.clean_sheets, x.matches_played)
        /\ \A i \in ReportPos, j \in ReportPos :
              i < j =>
                 \/ report.rows[i].clean_sheets > report.rows[j].clean_sheets
                 \/ /\ report.rows[i].clean_sheets = report.rows[j].clean_sheets
                    /\ report.rows[i].clean_sheet_percentage
                          >= report.rows[j].clean_sheet_percentage

\* Two of three (66.7), and two teams with the same clean sheets told apart
\* by the percentage.
C16_Witness ==
    /\ TeamSheetsReturned
    /\ \E i \in ReportPos :
          report.rows[i].clean_sheets = 2 /\ report.rows[i].matches_played = 3
    /\ \E i \in ReportPos, j \in ReportPos :
          /\ i < j
          /\ report.rows[i].clean_sheets = report.rows[j].clean_sheets
          /\ report.rows[i].clean_sheet_percentage > report.rows[j].clean_sheet_percentage

(***************************************************************************)
(* C18.  For every goalkeeper of the league the goalkeeper report gives    *)
(* the cleanSheets the team report gives for the goalkeeper's team on the  *)
(* same data, matchesPlayed = the team's completed matches, goalsAgainst   *)
(* = the sum of the opponents' scores over them; the list is sorted by     *)
(* cleanSheets descending, then goalsAgainst ascending.                    *)
(***************************************************************************)
C18_GoalkeeperOf(i) == report.rows[i].player_id

C19_FlagsOnly ==
    [][\A i \in 1..Len(matches) :
          update_match_clean_sheet(i) =>
             /\ matches'[i].home_clean_sheet = (matches[i].away_score = 0)
             /\ matches'[i].away_clean_sheet = (matches[i].home_score = 0)
             /\ matches'[i] = [matches[i] EXCEPT
                                  !.home_clean_sheet = matches'[i].home_clean_sheet,
                                  !.away_clean_sheet = matches'[i].away_clean_sheet]
             /\ Len(matches') = Len(matches)
             /\ \A k \in 1..Len(matches) : k # i => matches'[k] = matches[k]
             /\ UNCHANGED <<season, league, events>>]_vars

\* The update has acted on a match that is not completed: a 0-0 match that
\* save() never flagged has both flags, and a live match that kept the flags
\* of an earlier result has them set from its scores.
C19_Witness ==
    /\ \E i \in 1..Len(matches) :
          /\ matches[i].status = "scheduled"
          /\ matches[i].home_clean_sheet /\ matches[i].away_clean_sheet
    /\ \E i \in 1..Len(matches) :
          /\ matches[i].status = "live"
          /\ matches[i].home_score > 0 /\ matches[i].away_score = 0
          /\ matches[i].home_clean_sheet /\ ~matches[i].away_clean_sheet

(***************************************************************************)
(* C17.  fairPlayRating = max(0, 10 - ((yellow + 3 * red) / (matchesPlayed *)
(* 5)) * 10) to one decimal when matchesPlayed > 0 and exactly 10.0 when   *)
(* it is 0, cards or not; it lies in [0.0, 10.0], never increases when a   *)
(* card is added while matchesPlayed stays, and the team report is sorted  *)
(* by rating descending.  Ratings are in tenths.                           *)
(***************************************************************************)
\* The card events of the players of team t, counted on the event table.
C17_Yellow(t) ==
    Cardinality({k \in 1..Len(events) :
                    /\ PlayerTeam(events[k].player) = t
                    /\ events[k].event_type = "yellow_card"})

C17_Red(t) ==
    Cardinality({k \in 1..Len(events) :
                    /\ PlayerTeam(events[k].player) = t
                    /\ events[k].event_type \in {"red_card", "second_yellow"}})

\* r is the rating of a team with y yellow and d red cards in n matches:
\* 10 * (10 - 2 * (y + 3 * d) / n), held at 0 from below, to the nearest unit.
C17_IsRating(r, y, d, n) ==
    IF n = 0 THEN r = 100
    ELSE IF 100 * n - 20 * (y + 3 * d) <= 0 THEN r = 0
    ELSE /\ 2 * (r * n - (100 * n - 20 * (y + 3 * d))) <= n
         /\ 2 * ((100 * n - 20 * (y + 3 * d)) - r * n) <= n

C17_RowsAsRated ==
    report.op = "calculate_team_disciplinary_stats" =>
        /\ \A t \in Teams : \E i \in ReportPos : report.rows[i].team_id = t
        /\ \A i \in ReportPos :
              LET x == report.rows[i] IN
              /\ C17_IsRating(x.fair_play_rating, C17_Yellow(x.team_id), C17_Red(x.team_id),
                              Cardinality(PlayedBy(x.team_id)))
              /\ x.fair_play_rating >= 0 /\ x.fair_play_rating <= 100
        /\ \A i \in ReportPos, j \in ReportPos :
              i < j => report.rows[i].fair_play_rating >= report.rows[j].fair_play_rating

C17_RatingOf(t) == TeamDisciplinaryRow(matches, events, t).fair_play_rating

C17_FairPlayRating ==
    [][/\ C17_RowsAsRated'
       /\ (Len(events') = Len(events) + 1 /\ matches' = matches)
             => \A t \in Teams : C17_RatingOf(t)' <= C17_RatingOf(t)]_vars

\* The report shows a rating that had to be rounded (one yellow card in
\* three matches, 9.3) above the rating of a team with a red card.
C17_Witness ==
    /\ report.op = "calculate_team_disciplinary_stats"
    /\ \E i \in ReportPos, j \in ReportPos :
          /\ i < j
          /\ report.rows[i].fair_play_rating = 93
          /\ report.rows[i].yellow_cards = 1
          /\ report.rows[j].red_cards = 1
          /\ report.rows[j].fair_play_rating < 93

(***************************************************************************)
(* C20.  The report operations (standings, top scorers and assists, team   *)
(* and goalkeeper clean sheets, player and team disciplinary stats) and    *)
(* the automatic-red-card check leave every stored entity unchanged: a     *)
(* step of any of them, from its call to its return, changes no match, no  *)
(* match event and nothing of the season or the league.                    *)
(***************************************************************************)
C20_ReportsLeaveDataUnchanged ==
    [][(calcVars' # calcVars) => UNCHANGED <<season, league, matches, events>>]_vars

\* The red-card check has answered yes on a season in which a match is
\* completed and the flag update has written to a match that is not.
C20_Witness ==
    /\ report.op = "check_automatic_red_card"
    /\ report.rows = <<TRUE>>
    /\ \E i \in 1..Len(matches) : StatusCompleted(matches[i])
    /\ \E i \in 1..Len(matches) :
          ~StatusCompleted(matches[i]) /\ matches[i].home_clean_sheet


(***************************************************************************)
(* Reference quantities of the player disciplinary report, counted on the  *)
(* stored events directly.                                                 *)
(***************************************************************************)
PlayerCardsReturned == report.op = "calculate_disciplinary_stats"

YellowEventsOf(p) ==
    Cardinality({k \in DOMAIN events :
                    events[k].player = p /\ events[k].event_type = "yellow_card"})

RedEventsOf(p) ==
    Cardinality({k \in DOMAIN events :
                    /\ events[k].player = p
                    /\ events[k].event_type \in {"red_card", "second_yellow"}})

\* The card events that can be added to the season.
CardEventsToAdd ==
    {NewEvent(i, type, p, Null, PlayerTeam(p), FALSE) :
        i \in 1..Len(matches), type \in {"yellow_card", "red_card", "second_yellow"},
        p \in Players}

\* k is floor(y / 5).
IsFloorOfFifth(k, y) == 5 * k <= y /\ y < 5 * k + 5

(***************************************************************************)
(* C21: for every player of the player disciplinary report,                *)
(* suspension_games = red cards + floor(yellow cards / 5); it is           *)
(* non-negative, and adding a card event to the season never lowers a      *)
(* player's suspension_games.                                              *)
(***************************************************************************)
C21_SuspensionGames ==
    PlayerCardsReturned =>
        \A i \in DOMAIN report.rows :
            LET row == report.rows[i]
                p == row.player_id
            IN /\ row.suspension_games >= 0
               /\ IsFloorOfFifth(row.suspension_games - RedEventsOf(p), YellowEventsOf(p))
               /\ \A e \in CardEventsToAdd :
                     DisciplinaryRow(Append(events, e), p).suspension_games
                         >= row.suspension_games

\* A player whose five yellow cards and one red card cost two games.
C21_Witness ==
    /\ PlayerCardsReturned
    /\ \E i \in DOMAIN report.rows :
          /\ YellowEventsOf(report.rows[i].player_id) = 5
          /\ RedEventsOf(report.rows[i].player_id) = 1
          /\ report.rows[i].suspension_games = 2

(***************************************************************************)
(* C22: in the player disciplinary report each listed player's             *)
(* yellow_cards is the number of the player's yellow_card events, red_cards *)
(* the number of the player's red_card and second_yellow events,           *)
(* total_cards their sum; exactly the players with a card event are        *)
(* listed, once each; and the rows are sorted by total_cards descending,   *)
(* then red_cards descending.                                              *)
(***************************************************************************)
C22_PlayerCardCounts ==
    PlayerCardsReturned =>
        LET rows == report.rows IN
        /\ \A i \in DOMAIN rows :
              /\ rows[i].yellow_cards = YellowEventsOf(rows[i].player_id)
              /\ rows[i].red_cards = RedEventsOf(rows[i].player_id)
              /\ rows[i].total_cards = rows[i].yellow_cards + rows[i].red_cards
        /\ \A p \in Players :
              (YellowEventsOf(p) + RedEventsOf(p) > 0)
                  <=> (\E i \in DOMAIN rows : rows[i].player_id = p)
        /\ \A i \in DOMAIN rows, j \in DOMAIN rows :
              i < j => /\ rows[i].player_id # rows[j].player_id
                       /\ \/ rows[i].total_cards > rows[j].total_cards
                          \/ /\ rows[i].total_cards = rows[j].total_cards
                             /\ rows[i].red_cards >= rows[j].red_cards

\* Two listed players level on cards and apart on red cards, the red card
\* a second yellow, and a player left out who has an event that is no card.
C22_Witness ==
    /\ PlayerCardsReturned
    /\ Len(report.rows) = 2
    /\ report.rows[1].total_cards = report.rows[2].total_cards
    /\ report.rows[1].red_cards > report.rows[2].red_cards
    /\ \E k \in DOMAIN events :
          /\ events[k].event_type = "second_yellow"
          /\ events[k].player = report.rows[1].player_id
    /\ \E k \in DOMAIN events :
          /\ events[k].event_type = "goal"
          /\ \A i \in DOMAIN report.rows : report.rows[i].player_id # events[k].player

(***************************************************************************)
(* C23: check_automatic_red_card(player, match) returns true exactly when  *)
(* the player has at least two yellow_card events in that match; no other  *)
(* event weighs in (yellow cards in other matches, cards of other players, *)
(* red_card and second_yellow events), and the call records no event.      *)
(***************************************************************************)
C23_YellowInMatch(p, i) ==
    Cardinality({k \in DOMAIN events :
                    /\ events[k].match = i
                    /\ events[k].player = p
                    /\ events[k].event_type = "yellow_card"})

C23_TwoYellowsInTheMatch ==
    [][\A p \in Players, i \in 1..Len(matches) :
          check_automatic_red_card(p, i)
              => /\ report'.rows = <<C23_YellowInMatch(p, i) >= 2>>
                 /\ ~report'.raised
                 /\ events' = events]_vars

\* The check answered true for a player who has two yellow cards in one
\* match and a third in another one.
C23_Witness ==
    /\ report.op = "check_automatic_red_card"
    /\ report.rows = <<TRUE>>
    /\ \E i \in 1..Len(matches), j \in 1..Len(matches) :
          /\ C23_YellowInMatch(report.arg, i) = 2
          /\ C23_YellowInMatch(report.arg, j) = 1


(***************************************************************************)
(* C24: the output of every report, the order of its rows included, is a   *)
(* function of the stored data alone: a report returns the same sequence   *)
(* whatever the order in which the teams and the players are read, also    *)
(* when rows are level on every sort key of the report.                    *)
(***************************************************************************)
C24_OutputIndependentOfReadOrder ==
    [][/\ (\E o \in TeamOrders : calculate_clean_sheets(o))
             => (\A o \in TeamOrders : calculate_clean_sheets(o))
       /\ (\E o \in GoalkeeperOrders : calculate_goalkeeper_clean_sheets(o))
             => (\A o \in GoalkeeperOrders : calculate_goalkeeper_clean_sheets(o))
       /\ (\E o \in PlayerOrders : calculate_disciplinary_stats(o))
             => (\A o \in PlayerOrders : calculate_disciplinary_stats(o))
       /\ (\E o \in TeamOrders : calculate_team_disciplinary_stats(o))
             => (\A o \in TeamOrders : calculate_team_disciplinary_stats(o))
       /\ \A limit \in Limits :
             /\ (\E o \in PlayerOrders : get_top_scorers(limit, o))
                   => (\A o \in PlayerOrders : get_top_scorers(limit, o))
             /\ (\E o \in PlayerOrders : get_top_assists(limit, o))
                   => (\A o \in PlayerOrders : get_top_assists(limit, o))
       /\ FinishStandings
             => \A o \in TeamOrders :
                   standings' = SortStandings([i \in 1..NumTeams |-> standings_map'[o[i]]],
                                              1, <<>>)]_vars


(***************************************************************************)
(* C25: while the season has no completed match every report returns       *)
(* without an error; the standings hold every team once with all counters  *)
(* zero and an empty form, the team clean-sheet report holds every team    *)
(* once with zero values, and a leaderboard asked with a positive limit is *)
(* empty.                                                                  *)
(***************************************************************************)
C25_NoCompletedMatch == \A k \in 1..Len(matches) : ~StatusCompleted(matches[k])

C25_EmptySeasonReports ==
    C25_NoCompletedMatch =>
        /\ CalcDone =>
              /\ C10_EachTeamOnce
              /\ \A i \in RowPos : C10_AllZero(standings[i]) /\ standings[i].form = <<>>
        /\ TeamSheetsReturned =>
              /\ ~report.raised
              /\ Len(report.rows) = NumTeams
              /\ \A t \in Teams : \E i \in ReportPos : report.rows[i].team_id = t
              /\ \A i \in ReportPos :
                    /\ report.rows[i].matches_played = 0
                    /\ report.rows[i].clean_sheets = 0
                    /\ report.rows[i].clean_sheet_percentage = 0
        /\ (BoardCalled /\ report.arg > 0) => (~report.raised /\ report.rows = <<>>)
        /\ ~BoardCalled => ~report.raised


(***************************************************************************)
(* C26: an event whose player is not on the event's team, or an assist or  *)
(* substitution without its related player, is skipped by the engines: it  *)
(* adds to no count of a leaderboard row or of a team disciplinary row,    *)
(* while every other event is counted.  (The reports return their rows     *)
(* only; a list of the skipped events has no place in the result.)         *)
(***************************************************************************)
\* The events of the wanted kind that pass MatchEvent.clean.
C26_Accepted(Wanted(_)) ==
    Cardinality({k \in DOMAIN events : Wanted(events[k]) /\ MatchEventClean(events[k])})

C26_SkipsRejectedEvents ==
    /\ BoardReturned =>
          \A i \in BoardPos :
             LET p == report.rows[i].player_id
                 Goal(e) == /\ e.event_type \in {"goal", "penalty_goal"}
                            /\ ~e.is_own_goal
                            /\ e.player = p
                 Assist(e) == e.event_type = "assist" /\ e.player = p
             IN BoardCount(report.rows[i])
                   = IF report.op = "get_top_scorers" THEN C26_Accepted(Goal)
                     ELSE C26_Accepted(Assist)
    /\ report.op = "calculate_team_disciplinary_stats" =>
          \A i \in ReportPos :
             LET Yellow(e) == /\ e.event_type = "yellow_card"
                              /\ PlayerTeam(e.player) = report.rows[i].team_id
             IN report.rows[i].yellow_cards = C26_Accepted(Yellow)


(***************************************************************************)
(* C27: the totals of the standings do not depend on the order of the      *)
(* completed matches: folding any permutation of them gives every team the *)
(* same matches_played, wins, draws, losses, goals_for, goals_against,     *)
(* goal_difference and points as the report has (the form may differ), and *)
(* the same ranking.                                                       *)
(***************************************************************************)
C27_Orders(n) == {f \in [1..n -> 1..n] : \A i \in 1..n, j \in 1..n : i # j => f[i] # f[j]}

\* The standings of the teams when the completed matches are folded in order f.
C27_Folded(f) ==
    LET permuted == [i \in 1..Len(snapshot) |-> snapshot[f[i]]]
        folded == FoldMatches(permuted, 1, [t \in Teams |-> NewTeamStanding(t)],
                              season, league)
    IN [t \in Teams |-> WithGoalDifference(folded[t])]

C27_Totals(st) == [st EXCEPT !.form = <<>>]

C27_Ranking(rows) == [i \in 1..Len(rows) |-> rows[i].team_id]

C27_OrderIndependentTotals ==
    CalcDone =>
        \A f \in C27_Orders(Len(snapshot)) :
            LET rows == C27_Folded(f) IN
            /\ \A t \in Teams : C27_Totals(rows[t]) = C27_Totals(standings_map[t])
            /\ C27_Ranking(SortStandings([i \in 1..NumTeams |-> rows[teams_qs[i]]], 1, <<>>))
                  = C27_Ranking(standings)

\* Three completed matches of which another order gives a team another form.
C27_Witness ==
    /\ CalcDone
    /\ Len(snapshot) = 3
    /\ \E f \in C27_Orders(Len(snapshot)), t \in Teams :
          C27_Folded(f)[t].form # standings_map[t].form

(***************************************************************************)
(* C28: in the standings every team's matches_played is wins + draws +     *)
(* losses and is the number of completed matches the team was home or away *)
(* in; over the table the wins add up to the losses, the draws to an even  *)
(* number, and the goals_for to the goals_against.                         *)
(***************************************************************************)
C28_Sum(field(_)) == SumTeams(LAMBDA t : field(standings_map[t]), NumTeams)

C28_TableBalances ==
    CalcDone =>
        LET Wins(st) == st.wins
            Draws(st) == st.draws
            Losses(st) == st.losses
            GoalsFor(st) == st.goals_for
            GoalsAgainst(st) == st.goals_against
        IN /\ \A i \in RowPos :
                 /\ standings[i].matches_played
                       = standings[i].wins + standings[i].draws + standings[i].losses
                 /\ standings[i].matches_played
                       = Cardinality({k \in 1..Len(matches) :
                                         /\ StatusCompleted(matches[k])
                                         /\ Plays(standings[i].team_id, matches[k])})
           /\ C10_EachTeamOnce
           /\ \A i \in RowPos : standings[i] = standings_map[standings[i].team_id]
           /\ C28_Sum(Wins) = C28_Sum(Losses)
           /\ C28_Sum(Draws) % 2 = 0
           /\ C28_Sum(GoalsFor) = C28_Sum(GoalsAgainst)

\* A table after a home win, an away win and a draw with goals.
C28_Witness ==
    /\ CalcDone
    /\ \E i \in 1..Len(snapshot) : snapshot[i].home_score > snapshot[i].away_score
    /\ \E i \in 1..Len(snapshot) : snapshot[i].home_score < snapshot[i].away_score
    /\ \E i \in 1..Len(snapshot) :
          snapshot[i].home_score = snapshot[i].away_score /\ snapshot[i].home_score > 0


(***************************************************************************)
(* C29: whatever start_match, complete_match, dispute_match and            *)
(* update_match_clean_sheet calls came before, every completed match has   *)
(* home_clean_sheet = (away_score = 0) and away_clean_sheet =              *)
(* (home_score = 0); so the clean sheets counted by the flags, which the   *)
(* team report returns, are those counted by the scores.                   *)
(***************************************************************************)
\* The completed matches of team t whose flag says t kept a clean sheet.
C29_Flagged(t) ==
    {k \in PlayedBy(t) : \/ matches[k].home_team = t /\ matches[k].home_clean_sheet
                         \/ matches[k].away_team = t /\ matches[k].away_clean_sheet}

C30_ReportOn(ms) ==
    \A i \in ReportPos : report.rows[i] = CleanSheetRow(ms, report.rows[i].team_id)

C30_ReportBeforeOrAfterWrite ==
    (pc = "idle" /\ TeamSheetsReturned) => (C30_ReportOn(FixtureList) \/ C30_ReportOn(matches))

=============================================================================
